---- MODULE Spec2Model ----
(***************************************************************************)
(* State-machine model of the text_distortion_augment repository:          *)
(*   - shift_tokens_right and TransformerModel.forward  (src/model/model.py)*)
(*   - TransformerModel.generate, the batched beam search (src/model/model.py)*)
(*   - training, the joint classifier/augmenter loop    (src/task/training.py)*)
(* Tensors are sequences (rows) of sequences; log-probabilities are        *)
(* integers in a fixed unit, with float('-inf') as the value NegInf.       *)
(***************************************************************************)
EXTENDS Integers, Sequences, FiniteSets, TLC

VARIABLES
    \* ---- shift_tokens_right / forward ----
    input_ids,               \* the (N, L) tensor handed to forward / shift_tokens_right
    pad_idx,                 \* self.pad_idx: <<>> is None, <<p>> is the id p
    decoder_start_token_id,  \* self.decoder_start_token_id
    shifted_input_ids,       \* y = shift_tokens_right(x): returned by the first call
    shifted_twice,           \* shift_tokens_right(y): returned by the second call
    decoder_input_ids,       \* forward's local decoder_input_ids (<<>> before it is bound)
    spc,                     \* position of the caller of shift_tokens_right / forward
    shift_error,             \* exception that left shift_tokens_right / forward ("" = none)
    \* ---- generate ----
    module_globals,          \* names bound in the module namespace of model.py
    vocab_num, src_max_len,  \* self.vocab_num, self.src_max_len
    batch_size, beam_size, beam_alpha, repetition_penalty,
    decoder,                 \* the decoder weights: a map from (first step?, last token) to a score row
    step,                    \* loop variable of generate
    seqs,                    \* live sequences, one per slot 0 .. beam_size*batch_size-1
    top_k_scores,            \* cumulative score of each live slot
    next_word_inds,          \* token chosen by each slot in the last step
    prev_word_inds,          \* predecessor beam of each slot in the last step
    log_probs,               \* per-slot per-token log_softmax output of the last step (line 167)
    scores,                  \* the same after the repetition-penalty stage (line 176)
    scores_save,             \* saved score per slot (0 = nothing saved)
    scores_norm,             \* the tensor line 217 binds: scores_save / lp, as fractions
    complete_seqs,           \* saved sequence per slot (<<>> = defaultdict's missing entry)
    complete_ind,            \* slot indices that have selected end-of-sequence
    predicted,               \* value returned by generate
    gen_error,               \* exception that left generate ("" = none)
    gpc,                     \* position inside generate
    \* ---- training ----
    args,                    \* the configuration: batch_size, num_grad_accumulate, num_epochs, resume
    tokenizer_keys,          \* keys the classifier tokenizer's output mapping answers
    files,                   \* the file system: path -> checkpoint archive (<<>> = no file)
    train_src_input_ids, train_src_attention_mask, train_src_token_type_ids, train_trg_list,
    aug_train_src_input_ids, aug_train_trg_list,  \* arrays behind the 'aug_train' dataset
    valid_src_input_ids, aug_valid_src_input_ids, \* arrays behind 'valid' and 'aug_valid'
    dataset_dict, dataloader_dict,
    cls_train_iter, aug_train_iter,
    loop_iter,               \* the iterator a running `for batch_iter in dataloader` draws from
    batch_iter, aug_batch_iter,
    src_sequence,            \* src_sequence, src_att, src_seg: bound together (lines 216, 321)
    trg_label,
    aug_src_sequence,        \* aug_src_sequence, aug_src_att, aug_src_seg (lines 247, 345, 375)
    epoch, finish_epoch, freq,
    acc_i,                   \* iterations done of the running `for _ in range(num_grad_accumulate)`
    cls_model, aug_model,    \* weights, as the number of updates applied
    cls_optimizer, aug_optimizer, cls_scheduler, aug_scheduler, scaler,
    val_acc, val_mmd_loss, best_val_loss,
    best_epoch,              \* <<>> while the local is unbound
    round_log,               \* calls made on optimizers, schedulers and models in this round
    last_log,                \* the last message given to write_log
    tpc,                     \* position inside training
    train_error              \* exception that left training ("" = none)

shiftVars == <<input_ids, pad_idx, decoder_start_token_id, shifted_input_ids, shifted_twice,
               decoder_input_ids, spc, shift_error>>
genVars == <<module_globals, vocab_num, src_max_len, batch_size, beam_size, beam_alpha,
             repetition_penalty, decoder, step, seqs, top_k_scores, next_word_inds,
             prev_word_inds, log_probs, scores, scores_save, scores_norm, complete_seqs,
             complete_ind, predicted, gen_error, gpc>>
vars == <<input_ids, pad_idx, decoder_start_token_id, shifted_input_ids, shifted_twice,
          decoder_input_ids, spc, shift_error, module_globals, vocab_num, src_max_len,
          batch_size, beam_size, beam_alpha, repetition_penalty, decoder, step, seqs,
          top_k_scores, next_word_inds, prev_word_inds, log_probs, scores, scores_save,
          scores_norm, complete_seqs, complete_ind, predicted, gen_error, gpc,
          args, tokenizer_keys, files, train_src_input_ids,
          train_src_attention_mask, train_src_token_type_ids, train_trg_list,
          aug_train_src_input_ids, aug_train_trg_list, valid_src_input_ids,
          aug_valid_src_input_ids, dataset_dict, dataloader_dict, cls_train_iter,
          aug_train_iter, loop_iter, batch_iter, aug_batch_iter, src_sequence, trg_label,
          aug_src_sequence, epoch, finish_epoch, freq, acc_i, cls_model, aug_model,
          cls_optimizer, aug_optimizer, cls_scheduler, aug_scheduler, scaler, val_acc,
          val_mmd_loss, best_val_loss, best_epoch, round_log, last_log, tpc, train_error>>
\* the variables of training
trainVars == <<args, tokenizer_keys, files, train_src_input_ids,
               train_src_attention_mask, train_src_token_type_ids, train_trg_list,
               aug_train_src_input_ids, aug_train_trg_list, valid_src_input_ids,
               aug_valid_src_input_ids, dataset_dict, dataloader_dict, cls_train_iter,
               aug_train_iter, loop_iter, batch_iter, aug_batch_iter, src_sequence,
               trg_label, aug_src_sequence, epoch, finish_epoch, freq, acc_i, cls_model,
               aug_model, cls_optimizer, aug_optimizer, cls_scheduler, aug_scheduler,
               scaler, val_acc, val_mmd_loss, best_val_loss, best_epoch, round_log,
               last_log, tpc, train_error>>

\* training is not running in the specifications of the model's functions
TrainIdle ==
    /\ args = <<>> /\ tokenizer_keys = {} /\ files = <<>>
    /\ train_src_input_ids = <<>> /\ train_src_attention_mask = <<>>
    /\ train_src_token_type_ids = <<>> /\ train_trg_list = <<>>
    /\ aug_train_src_input_ids = <<>> /\ aug_train_trg_list = <<>>
    /\ valid_src_input_ids = <<>> /\ aug_valid_src_input_ids = <<>>
    /\ dataset_dict = <<>> /\ dataloader_dict = <<>>
    /\ cls_train_iter = <<>> /\ aug_train_iter = <<>> /\ loop_iter = <<>>
    /\ batch_iter = <<>> /\ aug_batch_iter = <<>> /\ src_sequence = <<>>
    /\ trg_label = <<>> /\ aug_src_sequence = <<>>
    /\ epoch = 0 /\ finish_epoch = FALSE /\ freq = 0 /\ acc_i = 0
    /\ cls_model = 0 /\ aug_model = 0 /\ cls_optimizer = 0 /\ aug_optimizer = 0
    /\ cls_scheduler = 0 /\ aug_scheduler = 0 /\ scaler = 0
    /\ val_acc = <<>> /\ val_mmd_loss = 0 /\ best_val_loss = 0 /\ best_epoch = <<>>
    /\ round_log = <<>> /\ last_log = "" /\ tpc = "idle" /\ train_error = ""

(***************************************************************************)
(* Bounds of the model.                                                    *)
(***************************************************************************)
MaxShiftLen == 3      \* columns of the tensor given to shift_tokens_right

\* the label-ignore sentinel replaced by shift_tokens_right
IgnoreIndex == -100
\* row counts of the tensors given to shift_tokens_right (rows are treated alike)
ShiftRowCounts == {1, 2}
\* token ids the shifted tensors are drawn from: the sentinel, a word, the start id
ShiftTokens == {IgnoreIndex, 5, 9}
ShiftPadIds == {<<>>, <<0>>}
ShiftStartId == 9

(***************************************************************************)
(* shift_tokens_right (model.py 270-283), statement by statement.          *)
(***************************************************************************)
\* input_ids.new_zeros(input_ids.shape): a fresh tensor, the input is not aliased
NewZeros(ids) == [r \in 1..Len(ids) |-> [c \in 1..Len(ids[r]) |-> 0]]

\* shifted[:, 1:] = input_ids[:, :-1].clone()
\* Faulty variant: the copy is not displaced by one column.
CopyShiftedNoShift(shifted, ids) ==
    [r \in 1..Len(ids) |-> [c \in 1..Len(ids[r]) |-> ids[r][c]]]
CopyShifted(shifted, ids) ==
    [r \in 1..Len(ids) |->
        [c \in 1..Len(ids[r]) |-> IF c >= 2 THEN ids[r][c - 1] ELSE shifted[r][c]]]

\* shifted[:, 0] = decoder_start_token_id
SetStart(shifted, start) ==
    [r \in 1..Len(shifted) |->
        [c \in 1..Len(shifted[r]) |-> IF c = 1 THEN start ELSE shifted[r][c]]]

\* shifted.masked_fill_(shifted == -100, pad_token_id)
\* Faulty variant: the sentinel is left in place.
MaskedFillKeep(shifted, pad) == shifted
MaskedFill(shifted, pad) ==
    [r \in 1..Len(shifted) |->
        [c \in 1..Len(shifted[r]) |->
            IF shifted[r][c] = IgnoreIndex THEN pad ELSE shifted[r][c]]]

\* `if pad_token_id is None: raise ValueError(...)`
PadIsNone(pad) == pad = <<>>

\* Faulty variant: no None test, a default pad id 0 is substituted silently.
shift_tokens_rightDefaultPad(ids, pad, start) ==
    [raised |-> "",
     value |-> MaskedFill(SetStart(CopyShifted(NewZeros(ids), ids), start),
                          IF pad = <<>> THEN 0 ELSE pad[1]),
     input |-> ids]

\* The whole function. raised = "ValueError" when line 279 raises, "" when it returns;
\* value is the returned tensor; input is the caller's tensor after the call (the
\* function writes only to the tensor it allocated with new_zeros).
shift_tokens_right(ids, pad, start) ==
    LET shifted == SetStart(CopyShifted(NewZeros(ids), ids), start)
    IN  IF PadIsNone(pad)
        THEN [raised |-> "ValueError", value |-> <<>>, input |-> ids]
        ELSE [raised |-> "", value |-> MaskedFill(shifted, pad[1]), input |-> ids]

(***************************************************************************)
(* Callers of shift_tokens_right.                                          *)
(***************************************************************************)
ShiftTensors ==
    UNION {[1..n -> [1..l -> ShiftTokens]] : n \in ShiftRowCounts, l \in 1..MaxShiftLen}

\* generate is not running in the shift specification
GenIdle ==
    /\ module_globals = {} /\ vocab_num = 0 /\ src_max_len = 0 /\ batch_size = 0
    /\ beam_size = 0 /\ beam_alpha = 0 /\ repetition_penalty = 0 /\ decoder = <<>>
    /\ step = 0 /\ seqs = <<>> /\ top_k_scores = <<>> /\ next_word_inds = <<>>
    /\ prev_word_inds = <<>> /\ log_probs = <<>> /\ scores = <<>> /\ scores_save = <<>>
    /\ scores_norm = <<>>
    /\ complete_seqs = <<>> /\ complete_ind = {} /\ predicted = <<>> /\ gen_error = ""
    /\ gpc = "idle"

InitShift ==
    /\ input_ids \in ShiftTensors
    /\ pad_idx \in ShiftPadIds
    /\ decoder_start_token_id = ShiftStartId
    /\ shifted_input_ids = <<>>
    /\ shifted_twice = <<>>
    /\ decoder_input_ids = <<>>
    /\ spc = "start"
    /\ shift_error = ""
    /\ GenIdle
    /\ TrainIdle

\* y = shift_tokens_right(x, pad, start)
CallShift ==
    /\ spc = "start"
    /\ LET r == shift_tokens_right(input_ids, pad_idx, decoder_start_token_id)
       IN  /\ input_ids' = r.input
           /\ shifted_input_ids' = r.value
           /\ spc' = IF r.raised = "" THEN "shifted" ELSE "shift_raised"
           /\ shift_error' = r.raised
    /\ UNCHANGED <<pad_idx, decoder_start_token_id, shifted_twice, decoder_input_ids>>
    /\ UNCHANGED genVars
    /\ UNCHANGED trainVars

\* yy = shift_tokens_right(y, pad, start): the function applied to its own result
CallShiftAgain ==
    /\ spc = "shifted"
    /\ LET r == shift_tokens_right(shifted_input_ids, pad_idx, decoder_start_token_id)
       IN  /\ shifted_input_ids' = r.input
           /\ shifted_twice' = r.value
           /\ spc' = IF r.raised = "" THEN "shifted_twice" ELSE "shift_raised"
           /\ shift_error' = r.raised
    /\ UNCHANGED <<input_ids, pad_idx, decoder_start_token_id, decoder_input_ids>>
    /\ UNCHANGED genVars
    /\ UNCHANGED trainVars

\* TransformerModel.forward (model.py 103-124): the decoder input is built first
\* (107-109); an exception of shift_tokens_right propagates out of forward, otherwise
\* the decoder and the projection layers run and the logits are returned.
Forward ==
    /\ spc = "start"
    /\ LET r == shift_tokens_right(input_ids, pad_idx, decoder_start_token_id)
       IN  /\ input_ids' = r.input
           /\ decoder_input_ids' = r.value
           /\ spc' = IF r.raised = "" THEN "forward_returned" ELSE "forward_raised"
           /\ shift_error' = r.raised
    /\ UNCHANGED <<pad_idx, decoder_start_token_id, shifted_input_ids, shifted_twice>>
    /\ UNCHANGED genVars
    /\ UNCHANGED trainVars

NextShift == CallShift \/ CallShiftAgain \/ Forward

SpecShift == InitShift /\ [][NextShift]_vars

(***************************************************************************)
(* TransformerModel.generate (model.py 126-223): batched beam search.      *)
(* Slot i = e * beam_size + j is beam j of example e; tensors indexed by   *)
(* slot are functions on 0 .. beam_size * batch_size - 1.                  *)
(***************************************************************************)
MaxBeam == 2          \* beam_size
MaxSrcLen == 3        \* src_max_len
BatchSizes == {1, 2}  \* examples per batch

\* float('-inf') (line 182); every finite score of the model is far above it
NegInf == -1000
\* the result of -inf * 0 and of 0 / 0
NaN == 0 - 2 * NegInf

eos_idx == 2
GenStartIds == {1}
BeamAlphas == {0, 1}
Penalties == {0, 2}
GenVocabNum == 3

\* log_softmax rows (line 167) the decoder can produce for a slot: nearly all mass on
\* the word 0, nearly all mass on end-of-sequence, or spread over the ids with the
\* word 0 ahead of end-of-sequence.
PeakWord == [t \in 0..(GenVocabNum - 1) |-> IF t = 0 THEN 0 ELSE IF t = 1 THEN -8 ELSE -9]
PeakEos == [t \in 0..(GenVocabNum - 1) |-> IF t = eos_idx THEN 0 ELSE IF t = 1 THEN -8 ELSE -9]
Spread == [t \in 0..(GenVocabNum - 1) |-> IF t = 0 THEN -1 ELSE IF t = eos_idx THEN -2 ELSE -4]
GenRows == {PeakWord, PeakEos, Spread}

Slots == 0..(beam_size * batch_size - 1)
Examples == 0..(batch_size - 1)
Vocab == 0..(vocab_num - 1)
Last(q) == q[Len(q)]

\* saturating float arithmetic on scores
Add(a, b) == IF a = NaN \/ b = NaN THEN NaN
             ELSE IF a = NegInf \/ b = NegInf THEN NegInf ELSE a + b
Mul(a, p) == IF a = NaN THEN NaN
             ELSE IF a = NegInf THEN (IF p = 0 THEN NaN ELSE NegInf) ELSE a * p
\* true division of a score that is not negative; log_softmax yields no positive
\* score, so the only dividend is 0
Div(a, p) == IF a = NaN \/ p = 0 THEN NaN ELSE a \div p

\* lines 157-167: decoder forward pass, projection and log_softmax for one slot.  The
\* weights are a map from the prefix to a row: at step 0 (prefix = start token) the row
\* depends on the example's encoder output, later on whether the last token of the
\* prefix is end-of-sequence.
DecoderRow(e, prefix) ==
    IF Len(prefix) = 1 THEN decoder.first[e]
    ELSE IF Last(prefix) = eos_idx THEN decoder.after_eos ELSE decoder.after_word
DecoderScores(i) == DecoderRow(i \div beam_size, seqs[i])

\* line 170: the guard of the repetition-penalty stage
\* Faulty variant: the penalty factor is not tested.
PenaltyAppliesAnyFactor == step >= 1
PenaltyApplies == step >= 1 /\ repetition_penalty # 0

\* lines 171-176: the score of the token the slot chose at the previous step is
\* multiplied by the factor when negative and divided by it otherwise
\* Faulty variant: every token of the slot is penalized.
PenalizedEveryToken(row, i) ==
    [t \in DOMAIN row |->
        IF row[t] < 0 THEN Mul(row[t], repetition_penalty)
                      ELSE Div(row[t], repetition_penalty)]
Penalized(row, i) ==
    [t \in DOMAIN row |->
        IF t = next_word_inds[i]
        THEN (IF row[t] < 0 THEN Mul(row[t], repetition_penalty)
                            ELSE Div(row[t], repetition_penalty))
        ELSE row[t]]

RepetitionPenalty(rows) ==
    IF PenaltyApplies THEN [i \in Slots |-> Penalized(rows[i], i)] ELSE rows

\* line 179: scores = top_k_scores.expand_as(scores) + scores
AddScore(rows) == [i \in Slots |-> [t \in Vocab |-> Add(top_k_scores[i], rows[i][t])]]

\* lines 180-185: the flat candidate row of example e.  At step 0 it is the row of the
\* example's first slot with end-of-sequence forced to -inf; later the beam_size rows
\* of the example laid end to end (flat index = beam * vocab_num + token).
\* Faulty variant: end-of-sequence keeps its score at step 0.
CandidateRowEosKept(total, e) ==
    IF step = 0
    THEN [f \in Vocab |-> total[e * beam_size][f]]
    ELSE [f \in 0..(beam_size * vocab_num - 1) |->
            total[e * beam_size + (f \div vocab_num)][f % vocab_num]]
CandidateRow(total, e) ==
    IF step = 0
    THEN [f \in Vocab |-> IF f = eos_idx THEN NegInf ELSE total[e * beam_size][f]]
    ELSE [f \in 0..(beam_size * vocab_num - 1) |->
            total[e * beam_size + (f \div vocab_num)][f % vocab_num]]

\* torch.topk(beam_size, 1, True, True) on one row: every sequence of beam_size
\* distinct flat indices, largest first, that no unselected index beats; the order
\* among equal values is not specified
TopK(row) ==
    {sel \in [0..(beam_size - 1) -> DOMAIN row] :
        /\ \A a, b \in 0..(beam_size - 1) : a < b =>
                (sel[a] # sel[b] /\ row[sel[a]] >= row[sel[b]])
        /\ \A f \in DOMAIN row :
                (\A a \in 0..(beam_size - 1) : sel[a] # f)
                    => row[f] <= row[sel[beam_size - 1]]}

\* one topk result per example: functions from the examples to their selections
RECURSIVE TopKAll(_, _)
TopKAll(total, e) ==
    IF e = batch_size THEN {<<>>}
    ELSE {<<sel>> \o rest : sel \in TopK(CandidateRow(total, e)),
                            rest \in TopKAll(total, e + 1)}

\* lines 188-193 for slot i = e * beam_size + j, given the topk results sels
FlatIndex(sels, i) == sels[(i \div beam_size) + 1][i % beam_size]
PrevWord(sels, i) == FlatIndex(sels, i) \div vocab_num
NextWord(sels, i) == FlatIndex(sels, i) % vocab_num
\* every_batch.unsqueeze(1).repeat(1, beam_size).view(-1): first slot of i's example
\* Faulty variant: the offset of the example is left out.
EveryBatchNone(i) == 0
EveryBatch(i) == (i \div beam_size) * beam_size
\* Faulty variant: the chosen token is not appended.
NewSeqsReordered(sels) == [i \in Slots |-> seqs[PrevWord(sels, i) + EveryBatch(i)]]
NewSeqs(sels) ==
    [i \in Slots |-> Append(seqs[PrevWord(sels, i) + EveryBatch(i)], NextWord(sels, i))]
NewTopKScores(total, sels) ==
    [i \in Slots |-> CandidateRow(total, i \div beam_size)[FlatIndex(sels, i)]]

\* lines 197-200: slots that chose end-of-sequence now and were not recorded before
CompleteIndAdd(sels) == {i \in Slots : NextWord(sels, i) = eos_idx} \ complete_ind

\* lines 208-209: positions the after-loop finalization rewrites
ScoreSavePos == {i \in Slots : scores_save[i] = 0}

RECURSIVE Pow(_, _)
Pow(b, n) == IF n = 0 THEN 1 ELSE b * Pow(b, n - 1)

\* lines 215-217: scores_save / (((len + beam_size) ** alpha) / ((beam_size + 1) ** alpha))
\* as the fraction num / den with den > 0; an infinite score stays infinite
LengthNormalized(score, len) ==
    IF score = NegInf \/ score = NaN
    THEN [num |-> score, den |-> 1]
    ELSE [num |-> score * Pow(beam_size + 1, beam_alpha),
          den |-> Pow(len + beam_size, beam_alpha)]
\* Faulty variant: the score is left as it is.
NormalizeNone(score, len) == [num |-> score, den |-> 1]
Normalize(score, len) == LengthNormalized(score, len)

\* a <= b for two normalized scores
FracLeq(a, b) == a.num * b.den <= b.num * a.den

\* line 220: max over the beam_size slots of example e; the first maximal index
BestBeam(norm, e) ==
    CHOOSE j \in 0..(beam_size - 1) :
        /\ \A h \in 0..(beam_size - 1) :
                FracLeq(norm[e * beam_size + h], norm[e * beam_size + j])
        /\ \A h \in 0..(j - 1) :
                ~FracLeq(norm[e * beam_size + j], norm[e * beam_size + h])

ShiftIdle ==
    /\ input_ids = <<>> /\ pad_idx = <<>> /\ shifted_input_ids = <<>>
    /\ shifted_twice = <<>> /\ decoder_input_ids = <<>> /\ spc = "idle"
    /\ shift_error = ""

\* state before generate starts: the arguments and the model's fields are fixed, the
\* locals are not yet bound
GenLocalsUnbound ==
    /\ step = 0 /\ seqs = <<>> /\ top_k_scores = <<>> /\ next_word_inds = <<>>
    /\ prev_word_inds = <<>> /\ log_probs = <<>> /\ scores = <<>> /\ scores_save = <<>>
    /\ scores_norm = <<>>
    /\ complete_seqs = <<>> /\ complete_ind = {} /\ predicted = <<>> /\ gen_error = ""
    /\ gpc = "entry"

Init ==
    /\ ShiftIdle
    /\ decoder_start_token_id \in GenStartIds
    /\ module_globals \in SUBSET {"input_ids", "decoder_out"}
    /\ vocab_num = GenVocabNum
    /\ src_max_len \in 1..MaxSrcLen
    /\ batch_size \in BatchSizes
    /\ beam_size \in 1..MaxBeam
    /\ beam_alpha \in BeamAlphas
    /\ repetition_penalty \in Penalties
    /\ decoder \in [first : [0..(batch_size - 1) -> GenRows],
                    after_word : GenRows, after_eos : GenRows]
    /\ GenLocalsUnbound
    /\ TrainIdle

\* lines 128-153.  `input_ids` is no parameter and no local of generate: line 128 looks
\* it up in the module namespace and raises NameError when it is not bound there.
GenerateEntry ==
    /\ gpc = "entry"
    /\ IF "input_ids" \notin module_globals
       THEN /\ gpc' = "raised"
            /\ gen_error' = "NameError"
            /\ UNCHANGED <<seqs, top_k_scores, scores_save, complete_seqs, complete_ind>>
       ELSE /\ gpc' = "loop"
            /\ gen_error' = ""
            /\ scores_save' = [i \in Slots |-> 0]
            /\ top_k_scores' = [i \in Slots |-> 0]
            /\ complete_seqs' = [i \in Slots |-> <<>>]
            /\ complete_ind' = {}
            /\ seqs' = [i \in Slots |-> <<decoder_start_token_id>>]
    /\ UNCHANGED <<module_globals, vocab_num, src_max_len, batch_size, beam_size,
                   beam_alpha, repetition_penalty, decoder, step, next_word_inds,
                   prev_word_inds, log_probs, scores, scores_norm, predicted>>
    /\ UNCHANGED shiftVars
    /\ UNCHANGED trainVars

\* lines 155-205: one iteration of the decoding loop.  `decoder_out` (line 165) is
\* looked up in the module namespace like `input_ids`; topk raises when beam_size
\* exceeds the width of the row.
DecodeStep ==
    /\ gpc = "loop"
    /\ step < src_max_len
    /\ IF "decoder_out" \notin module_globals
       THEN /\ gpc' = "raised"
            /\ gen_error' = "NameError"
            /\ UNCHANGED <<step, seqs, top_k_scores, next_word_inds, prev_word_inds,
                           log_probs, scores, scores_save, complete_seqs, complete_ind>>
       ELSE IF step = 0 /\ beam_size > vocab_num
       THEN /\ gpc' = "raised"
            /\ gen_error' = "RuntimeError"
            /\ UNCHANGED <<step, seqs, top_k_scores, next_word_inds, prev_word_inds,
                           log_probs, scores, scores_save, complete_seqs, complete_ind>>
       ELSE LET rows == [i \in Slots |-> DecoderScores(i)]
                penalized == RepetitionPenalty(rows)
                total == AddScore(penalized)
            IN  \E sels \in TopKAll(total, 0) :
                    LET add == CompleteIndAdd(sels)
                        new_seqs == NewSeqs(sels)
                        new_scores == NewTopKScores(total, sels)
                    IN  /\ log_probs' = rows
                        /\ scores' = penalized
                        /\ prev_word_inds' = [i \in Slots |-> PrevWord(sels, i)]
                        /\ next_word_inds' = [i \in Slots |-> NextWord(sels, i)]
                        /\ top_k_scores' = new_scores
                        /\ seqs' = new_seqs
                        /\ complete_ind' = complete_ind \cup
                                {i \in Slots : NextWord(sels, i) = eos_idx}
                        /\ scores_save' = [i \in Slots |->
                                IF i \in add THEN new_scores[i] ELSE scores_save[i]]
                        /\ complete_seqs' = [i \in Slots |->
                                IF i \in add THEN new_seqs[i] ELSE complete_seqs[i]]
                        /\ step' = step + 1
                        /\ UNCHANGED <<gpc, gen_error>>
    /\ UNCHANGED <<module_globals, vocab_num, src_max_len, batch_size, beam_size,
                   beam_alpha, repetition_penalty, decoder, scores_norm, predicted>>
    /\ UNCHANGED shiftVars
    /\ UNCHANGED trainVars

\* lines 207-212: after the loop, every slot whose saved score equals 0 takes its live
\* sequence and live score
Fallback ==
    /\ gpc = "loop"
    /\ step = src_max_len
    /\ complete_seqs' = [i \in Slots |->
            IF i \in ScoreSavePos THEN seqs[i] ELSE complete_seqs[i]]
    /\ scores_save' = [i \in Slots |->
            IF i \in ScoreSavePos THEN top_k_scores[i] ELSE scores_save[i]]
    /\ gpc' = "normalize"
    /\ UNCHANGED <<module_globals, vocab_num, src_max_len, batch_size, beam_size,
                   beam_alpha, repetition_penalty, decoder, step, seqs, top_k_scores,
                   next_word_inds, prev_word_inds, log_probs, scores, scores_norm,
                   complete_ind, predicted, gen_error>>
    /\ UNCHANGED shiftVars
    /\ UNCHANGED trainVars

\* lines 214-223: length normalization, argmax per example, result list
Return ==
    /\ gpc = "normalize"
    /\ LET norm == [i \in Slots |-> Normalize(scores_save[i], Len(complete_seqs[i]))]
       IN  /\ scores_norm' = norm
           /\ predicted' = [e \in Examples |->
                    complete_seqs[BestBeam(norm, e) + e * beam_size]]
    /\ gpc' = "returned"
    /\ UNCHANGED <<module_globals, vocab_num, src_max_len, batch_size, beam_size,
                   beam_alpha, repetition_penalty, decoder, step, seqs, top_k_scores,
                   next_word_inds, prev_word_inds, log_probs, scores, scores_save,
                   complete_seqs, complete_ind, gen_error>>
    /\ UNCHANGED shiftVars
    /\ UNCHANGED trainVars

Next == GenerateEntry \/ DecodeStep \/ Fallback \/ Return

Spec == Init /\ [][Next]_vars

(***************************************************************************)
(* The end-to-end scenario: ids 0=pad, 1=bos, 2=eos, 3..6=words; a decoder *)
(* with all probability on id 4 at the first step and on end-of-sequence   *)
(* afterwards; beam_size 2, src_max_len 5.                                 *)
(***************************************************************************)
ScenarioVocabNum == 7
ScenarioBeamSize == 2
ScenarioSrcMaxLen == 5
ScenarioWord == 4
ScenarioBatchSize == 1
OneHot(tok) == [t \in 0..(ScenarioVocabNum - 1) |-> IF t = tok THEN 0 ELSE NegInf]

InitScenario ==
    /\ ShiftIdle
    /\ decoder_start_token_id \in GenStartIds
    /\ module_globals \in SUBSET {"input_ids", "decoder_out"}
    /\ vocab_num = ScenarioVocabNum
    /\ src_max_len = ScenarioSrcMaxLen
    /\ batch_size = ScenarioBatchSize
    /\ beam_size = ScenarioBeamSize
    /\ beam_alpha \in BeamAlphas
    /\ repetition_penalty \in Penalties
    /\ decoder = [first |-> [e \in 0..(batch_size - 1) |-> OneHot(ScenarioWord)],
                  after_word |-> OneHot(eos_idx), after_eos |-> OneHot(eos_idx)]
    /\ GenLocalsUnbound
    /\ TrainIdle

SpecScenario == InitScenario /\ [][Next]_vars

(***************************************************************************)
(* training (src/task/training.py).                                        *)
(* A tensor or array is the sequence of its rows.  A row of token ids is    *)
(* named by the corpus and position of the example it encodes, a label row  *)
(* by the split and position of the example whose class it states.          *)
(* AugModel, ClsModel, CustomDataset, input_to_device and                   *)
(* MaximumMeanDiscrepancy are defined outside the files modelled here.      *)
(***************************************************************************)
MaxCorpus == 3            \* examples in a corpus file
MaxGradAccumulate == 2    \* args.num_grad_accumulate
MaxEpochs == 2            \* args.num_epochs
TrainBatchSizes == {1, 2} \* args.batch_size
PrintFreq == 2            \* args.print_freq

\* best_val_loss = 1e+3
InitialBestValLoss == 1000
\* values the epoch's mean validation MMD loss takes (line 364)
ValLosses == {1, 2, 1000}

\* the checkpoint paths built at lines 405-406 and at lines 167-169
SaveFileName == "model_save_path/data_name" \o "checkpoint.pth.tar"
ResumeFileName ==
    "model_save_path/task/data_name/tokenizer/checkpoint_src_S_trg_T_v_V_p_P.pth.tar"
\* the two processed.hdf5 files read at lines 57 and 69
ClsDataFile == "preprocess_path/data_name/cls_model/processed.hdf5"
AugDataFile == "preprocess_path/data_name/aug_model/processed.hdf5"

\* keys of the mapping a tokenizer call returns; a mapping may also answer other keys
StockKeys == {"input_ids", "attention_mask", "token_type_ids"}
TokenizerKeySets == {StockKeys, StockKeys \cup {"attetntion_mask"}}

Row(c, i) == [c |-> c, i |-> i, aug |-> FALSE]
LabelRow(split, i, form) == [split |-> split, i |-> i, form |-> form]

\* f.get('<split>_src_input_ids')[:] of a file holding n examples of that split
SrcArray(c, n) == [k \in 1..n |-> Row(c, k)]
\* F.one_hot(torch.tensor(f.get('<split>_label')[:])) : one one-hot row per example
OneHot1(split, n) == [k \in 1..n |-> LabelRow(split, k, "one_hot")]
\* F.one_hot applied to an array that is one-hot already (lines 77, 79): every entry
\* of every row is expanded again, the result has one more dimension
OneHotAgain(list) ==
    [k \in 1..Len(list) |->
        [list[k] EXCEPT !.form = IF @ = "one_hot" THEN "one_hot_of_one_hot" ELSE @]]

\* number of dimensions of an array of label rows of that form
Dims(form) == IF form = "one_hot" THEN 2 ELSE 3

\* CustomDataset(src_list=, src_att_list=, src_seg_list=, trg_list=); id names the object
CustomDataset(src_list, src_att_list, src_seg_list, trg_list, id) ==
    [src_list |-> src_list, src_att_list |-> src_att_list,
     src_seg_list |-> src_seg_list, trg_list |-> trg_list, id |-> id]

\* the label row the dataset hands out for its example k: a batch source supplies
\* one one-hot label row per example
DatasetLabel(ds, k) == [ds.trg_list[k] EXCEPT !.form = "one_hot"]

\* DataLoader(dataset, drop_last=False, batch_size=, shuffle=)
DataLoader(ds, bs, shuffle) ==
    [kind |-> "DataLoader", dataset |-> ds, batch_size |-> bs, shuffle |-> shuffle]
\* `DataLoader(...),` with the trailing comma of line 403: a tuple of one element
TupleOf(x) == [kind |-> "tuple", items |-> <<x>>]

\* len(dataloader): drop_last=False keeps the short last batch
NumBatches(n, bs) == (n + bs - 1) \div bs
LenLoader(dl) ==
    IF dl.kind = "tuple" THEN Len(dl.items)
    ELSE NumBatches(Len(dl.dataset.src_list), dl.batch_size)

\* orders in which a loader walks its n examples
Orders(n, shuffle) ==
    {[k \in 1..n |-> k]} \cup (IF shuffle THEN {[k \in 1..n |-> n + 1 - k]} ELSE {})

\* the j-th batch of a pass in the given order: its token rows and its label rows
Batch(dl, order, j) ==
    LET n == Len(order)
        lo == (j - 1) * dl.batch_size
        m == IF lo + dl.batch_size <= n THEN dl.batch_size ELSE n - lo
    IN  [kind |-> "batch", id |-> dl.dataset.id,
         src |-> [k \in 1..m |-> dl.dataset.src_list[order[lo + k]]],
         lab |-> [k \in 1..m |-> DatasetLabel(dl.dataset, order[lo + k])]]

\* iter(x): over a loader the batches of one pass, over a tuple its elements
Iter(x, order) ==
    IF x.kind = "tuple" THEN x.items
    ELSE [j \in 1..NumBatches(Len(order), x.batch_size) |-> Batch(x, order, j)]
IterOrders(x) ==
    IF x.kind = "tuple" THEN {<<>>} ELSE Orders(Len(x.dataset.src_list), x.shuffle)

\* archives torch.load may find under the resume path, which no statement of training
\* writes: none, or the checkpoint of a run of e one-round epochs
ResumeArchives ==
    {<<>>} \cup {<<[epoch |-> e, cls_model |-> e, aug_model |-> e, cls_optimizer |-> e,
                    aug_optimizer |-> e, cls_scheduler |-> e, aug_scheduler |-> e,
                    scaler |-> 2 * e]>> : e \in 1..MaxEpochs}

TrainLocalsUnbound ==
    /\ train_src_input_ids = <<>> /\ train_src_attention_mask = <<>>
    /\ train_src_token_type_ids = <<>> /\ train_trg_list = <<>>
    /\ aug_train_src_input_ids = <<>> /\ aug_train_trg_list = <<>>
    /\ valid_src_input_ids = <<>> /\ aug_valid_src_input_ids = <<>>
    /\ dataset_dict = <<>> /\ dataloader_dict = <<>>
    /\ cls_train_iter = <<>> /\ aug_train_iter = <<>> /\ loop_iter = <<>>
    /\ batch_iter = <<>> /\ aug_batch_iter = <<>> /\ src_sequence = <<>>
    /\ trg_label = <<>> /\ aug_src_sequence = <<>>
    /\ epoch = 0 /\ finish_epoch = FALSE /\ freq = 0 /\ acc_i = 0
    /\ cls_model = 0 /\ aug_model = 0 /\ cls_optimizer = 0 /\ aug_optimizer = 0
    /\ cls_scheduler = 0 /\ aug_scheduler = 0 /\ scaler = 0
    /\ val_acc = <<>> /\ val_mmd_loss = 0 /\ best_val_loss = 0 /\ best_epoch = <<>>
    /\ round_log = <<>> /\ last_log = "" /\ train_error = ""

\* the state when training(args) is entered by the first process
InitTrain ==
    /\ ShiftIdle /\ decoder_start_token_id = ShiftStartId
    /\ GenIdle
    /\ args \in [batch_size : TrainBatchSizes, num_grad_accumulate : 1..MaxGradAccumulate,
                 num_epochs : 1..MaxEpochs, print_freq : {PrintFreq}, resume : BOOLEAN]
    /\ tokenizer_keys \in TokenizerKeySets
    /\ \E nt \in 1..MaxCorpus, nv \in 1..MaxCorpus :
         \E na \in 1..nt :
           files = [p \in {ClsDataFile, AugDataFile, SaveFileName} |->
                      CASE p = ClsDataFile -> [train |-> nt, valid |-> nv]
                        [] p = AugDataFile -> [train |-> na, valid |-> nv]
                        [] OTHER -> <<>>]
    /\ TrainLocalsUnbound
    /\ tpc = "start"

corpusVars == <<train_src_input_ids, train_src_attention_mask, train_src_token_type_ids,
                train_trg_list>>
otherCorpusVars == <<aug_train_src_input_ids, aug_train_trg_list, valid_src_input_ids,
                     aug_valid_src_input_ids>>
envVars == <<args, tokenizer_keys>>
loaderVars == <<dataset_dict, dataloader_dict>>
stateVars == <<cls_model, aug_model, cls_optimizer, aug_optimizer, cls_scheduler,
               aug_scheduler, scaler>>
batchVars == <<batch_iter, aug_batch_iter, src_sequence, trg_label, aug_src_sequence>>
bestVars == <<best_val_loss, best_epoch>>
modelVars == <<shiftVars, genVars>>

\* an exception leaves training
Raise(e) == tpc' = "raised" /\ train_error' = e

\* lines 52-161: the corpora are read, datasets, loaders, models, optimizers built
LoadData ==
    /\ tpc = "start"
    /\ LET cls == files[ClsDataFile]
           aug == files[AugDataFile]
           train_trg == OneHot1("train", cls.train)             \* line 65
           valid_trg == OneHot1("valid", cls.valid)             \* line 67
           aug_train_trg == OneHotAgain(train_trg)              \* line 77
           aug_valid_trg == OneHotAgain(valid_trg)              \* line 79
           dsets == [train |-> CustomDataset(SrcArray("train", cls.train),
                                 SrcArray("train", cls.train), SrcArray("train", cls.train),
                                 train_trg, 0),
                     valid |-> CustomDataset(SrcArray("valid", cls.valid),
                                 SrcArray("valid", cls.valid), SrcArray("valid", cls.valid),
                                 valid_trg, 0),
                     aug_train |-> CustomDataset(SrcArray("aug_train", aug.train),
                                 SrcArray("aug_train", aug.train),
                                 SrcArray("aug_train", aug.train), aug_train_trg, 0),
                     aug_valid |-> CustomDataset(SrcArray("aug_valid", aug.valid),
                                 SrcArray("aug_valid", aug.valid),
                                 SrcArray("aug_valid", aug.valid), aug_valid_trg, 0)]
       IN  /\ train_src_input_ids' = SrcArray("train", cls.train)
           /\ train_src_attention_mask' = SrcArray("train", cls.train)
           /\ train_src_token_type_ids' = SrcArray("train", cls.train)
           /\ train_trg_list' = train_trg
           /\ valid_src_input_ids' = SrcArray("valid", cls.valid)
           /\ aug_train_src_input_ids' = SrcArray("aug_train", aug.train)
           /\ aug_train_trg_list' = aug_train_trg
           /\ aug_valid_src_input_ids' = SrcArray("aug_valid", aug.valid)
           /\ dataset_dict' = dsets
           /\ dataloader_dict' =
                [name \in {"train", "valid", "aug_train", "aug_valid"} |->
                    DataLoader(dsets[name], args.batch_size, TRUE)]
    /\ cls_model' = 0 /\ aug_model' = 0 /\ cls_optimizer' = 0 /\ aug_optimizer' = 0
    /\ cls_scheduler' = 0 /\ aug_scheduler' = 0 /\ scaler' = 0
    /\ tpc' = "resume"
    /\ UNCHANGED <<envVars, files, cls_train_iter, aug_train_iter, loop_iter, batchVars,
                   epoch, finish_epoch, freq, acc_i, val_acc, val_mmd_loss, bestVars,
                   round_log, last_log, train_error, modelVars>>

\* torch.load(save_file_name): the archive found under that name (<<>> = no such file)
TorchLoad(name) == IF name \in DOMAIN files THEN {files[name]} ELSE ResumeArchives

\* lines 163-188: the optional resume, then best_val_loss and the two training iterators
Resume ==
    /\ tpc = "resume"
    /\ \E found \in TorchLoad(ResumeFileName) :
         IF args.resume /\ found = <<>>
         THEN /\ Raise("FileNotFoundError")
              /\ last_log' = "Resume model..."
              /\ UNCHANGED <<epoch, stateVars, best_val_loss, cls_train_iter,
                             aug_train_iter>>
         ELSE /\ IF args.resume
                 THEN LET checkpoint == found[1]
                      IN  /\ epoch' = checkpoint.epoch - 1      \* start_epoch
                          /\ cls_model' = checkpoint.cls_model
                          /\ aug_model' = checkpoint.aug_model
                          /\ cls_optimizer' = checkpoint.cls_optimizer
                          /\ aug_optimizer' = checkpoint.aug_optimizer
                          /\ cls_scheduler' = checkpoint.cls_scheduler
                          /\ aug_scheduler' = checkpoint.aug_scheduler
                          /\ scaler' = checkpoint.scaler
                 ELSE /\ epoch' = 0
                      /\ UNCHANGED stateVars
              /\ best_val_loss' = InitialBestValLoss
              /\ \E o \in IterOrders(dataloader_dict["train"]) :
                   cls_train_iter' = Iter(dataloader_dict["train"], o)
              /\ \E o \in IterOrders(dataloader_dict["aug_train"]) :
                   aug_train_iter' = Iter(dataloader_dict["aug_train"], o)
              /\ last_log' = "Traing start!"
              /\ tpc' = "epoch_start"
              /\ UNCHANGED train_error
    /\ UNCHANGED <<envVars, files, corpusVars, otherCorpusVars, loaderVars, loop_iter,
                   batchVars, finish_epoch, freq, acc_i, val_acc, val_mmd_loss,
                   best_epoch, round_log, modelVars>>

\* lines 190-197: the next value of `for epoch in range(start_epoch + 1, num_epochs + 1)`
EpochStart ==
    /\ tpc = "epoch_start"
    /\ IF epoch + 1 <= args.num_epochs
       THEN /\ epoch' = epoch + 1
            /\ finish_epoch' = FALSE
            /\ freq' = 0
            /\ tpc' = "cls_zero_grad"
       ELSE /\ tpc' = "results"
            /\ UNCHANGED <<epoch, finish_epoch, freq>>
    /\ UNCHANGED <<envVars, files, corpusVars, otherCorpusVars, loaderVars, cls_train_iter,
                   aug_train_iter, loop_iter, batchVars, acc_i, stateVars, val_acc,
                   val_mmd_loss, bestVars, round_log, last_log, train_error, modelVars>>

\* line 204: cls_optimizer.zero_grad(set_to_none=True), the first call of a round
ClsZeroGrad ==
    /\ tpc = "cls_zero_grad"
    /\ round_log' = <<"cls_optimizer.zero_grad">>
    /\ acc_i' = 0
    /\ tpc' = "cls_accumulate"
    /\ UNCHANGED <<envVars, files, corpusVars, otherCorpusVars, loaderVars, cls_train_iter,
                   aug_train_iter, loop_iter, batchVars, epoch, finish_epoch, freq,
                   stateVars, val_acc, val_mmd_loss, bestVars, last_log, train_error,
                   modelVars>>

\* `for _ in range(n)` has run its body i times and ends
\* Faulty variant: the body runs once more.
RangeDoneLate(i, n) == i = n + 1
RangeDone(i, n) == i = n

\* try: next(it) / except StopIteration: it = iter(loader); next(it) -- the iterator
\* the batch is drawn from
\* Faulty variant: a new iterator is made for every draw.
NextSourceFresh(it, fresh) == fresh
NextSource(it, fresh) == IF it = <<>> THEN fresh ELSE it

\* input_to_device and the unpacking into four tensors need a batch of four tensors
IsBatch(x) == x.kind = "batch"

\* lines 206-225: one classifier micro-batch
ClsMicroBatch ==
    /\ tpc = "cls_accumulate"
    /\ ~RangeDone(acc_i, args.num_grad_accumulate)
    /\ \E fresh \in {Iter(dataloader_dict["train"], o) :
                        o \in IterOrders(dataloader_dict["train"])} :
         LET exhausted == cls_train_iter = <<>>               \* next raises StopIteration
             it == NextSource(cls_train_iter, fresh)
         IN  /\ batch_iter' = Head(it)
             /\ cls_train_iter' = Tail(it)
    /\ IF IsBatch(batch_iter')
       THEN /\ src_sequence' = batch_iter'.src
            /\ trg_label' = batch_iter'.lab
            /\ round_log' = Append(round_log, "cls_model.forward_backward")
            /\ acc_i' = acc_i + 1
            /\ UNCHANGED <<tpc, train_error>>
       ELSE /\ Raise("TypeError")
            /\ UNCHANGED <<src_sequence, trg_label, round_log, acc_i>>
    /\ UNCHANGED <<envVars, files, corpusVars, otherCorpusVars, loaderVars, aug_train_iter,
                   loop_iter, aug_batch_iter, aug_src_sequence, epoch, finish_epoch, freq,
                   stateVars, val_acc, val_mmd_loss, bestVars, last_log, modelVars>>

\* lines 227-229: scaler.step(cls_optimizer); scaler.update(); cls_scheduler.step()
ClsStep ==
    /\ tpc = "cls_accumulate"
    /\ RangeDone(acc_i, args.num_grad_accumulate)
    /\ cls_optimizer' = cls_optimizer + 1
    /\ cls_model' = cls_model + 1
    /\ scaler' = scaler + 1
    /\ cls_scheduler' = cls_scheduler + 1
    /\ round_log' = round_log \o <<"cls_optimizer.step", "cls_scheduler.step">>
    /\ tpc' = "aug_zero_grad"
    /\ UNCHANGED <<envVars, files, corpusVars, otherCorpusVars, loaderVars, cls_train_iter,
                   aug_train_iter, loop_iter, batchVars, epoch, finish_epoch, freq, acc_i,
                   aug_model, aug_optimizer, aug_scheduler, val_acc, val_mmd_loss,
                   bestVars, last_log, train_error, modelVars>>

\* line 234: aug_optimizer.zero_grad(set_to_none=True)
AugZeroGrad ==
    /\ tpc = "aug_zero_grad"
    /\ round_log' = Append(round_log, "aug_optimizer.zero_grad")
    /\ acc_i' = 0
    /\ tpc' = "aug_accumulate"
    /\ UNCHANGED <<envVars, files, corpusVars, otherCorpusVars, loaderVars, cls_train_iter,
                   aug_train_iter, loop_iter, batchVars, epoch, finish_epoch, freq,
                   stateVars, val_acc, val_mmd_loss, bestVars, last_log, train_error,
                   modelVars>>

\* lines 236-285: one augmenter micro-batch.  recon_loss (line 264) compares the
\* decoder output for the augmenter batch with the tokens of src_sequence, the
\* classifier's batch: cross entropy needs as many targets as inputs.
AugMicroBatch ==
    /\ tpc = "aug_accumulate"
    /\ ~RangeDone(acc_i, args.num_grad_accumulate)
    /\ \E fresh \in {Iter(dataloader_dict["aug_train"], o) :
                        o \in IterOrders(dataloader_dict["aug_train"])} :
         LET exhausted == aug_train_iter = <<>>               \* next raises StopIteration
             it == NextSource(aug_train_iter, fresh)
         IN  /\ aug_batch_iter' = Head(it)
             /\ aug_train_iter' = Tail(it)
             /\ finish_epoch' = IF exhausted THEN TRUE ELSE finish_epoch
    /\ aug_src_sequence' = aug_batch_iter'.src
    /\ IF Len(aug_src_sequence') = Len(src_sequence)
       THEN /\ round_log' = Append(round_log, "aug_model.forward_backward")
            /\ acc_i' = acc_i + 1
            /\ UNCHANGED <<tpc, train_error>>
       ELSE /\ Raise("ValueError")
            /\ UNCHANGED <<round_log, acc_i>>
    /\ UNCHANGED <<envVars, files, corpusVars, otherCorpusVars, loaderVars, cls_train_iter,
                   loop_iter, batch_iter, src_sequence, trg_label, epoch, freq, stateVars,
                   val_acc, val_mmd_loss, bestVars, last_log, modelVars>>

\* lines 287-289: scaler.step(aug_optimizer); scaler.update(); aug_scheduler.step()
AugStep ==
    /\ tpc = "aug_accumulate"
    /\ RangeDone(acc_i, args.num_grad_accumulate)
    /\ aug_optimizer' = aug_optimizer + 1
    /\ aug_model' = aug_model + 1
    /\ scaler' = scaler + 1
    /\ aug_scheduler' = aug_scheduler + 1
    /\ round_log' = round_log \o <<"aug_optimizer.step", "aug_scheduler.step">>
    /\ tpc' = "round_end"
    /\ UNCHANGED <<envVars, files, corpusVars, otherCorpusVars, loaderVars, cls_train_iter,
                   aug_train_iter, loop_iter, batchVars, epoch, finish_epoch, freq, acc_i,
                   cls_model, cls_optimizer, cls_scheduler, val_acc, val_mmd_loss,
                   bestVars, last_log, train_error, modelVars>>

\* `if finish_epoch: break` (lines 302-303): where control goes after a round
\* Faulty variant: the loop is left after every round.
AfterRoundBreak(finished) == "cls_valid_start"
AfterRound(finished) == IF finished THEN "cls_valid_start" ELSE "cls_zero_grad"

\* lines 292-303: the progress log, freq, and the test that ends the epoch's loop
RoundEnd ==
    /\ tpc = "round_end"
    /\ last_log' = IF freq % args.print_freq = 0 \/ finish_epoch THEN "iter_log"
                   ELSE last_log
    /\ freq' = freq + 1
    /\ tpc' = AfterRound(finish_epoch)
    /\ UNCHANGED <<envVars, files, corpusVars, otherCorpusVars, loaderVars, cls_train_iter,
                   aug_train_iter, loop_iter, batchVars, epoch, finish_epoch, acc_i,
                   stateVars, val_acc, val_mmd_loss, bestVars, round_log, train_error,
                   modelVars>>

\* the iterators a `for batch_iter in dataloader_dict[name]` may start with
FreshIters(name) ==
    {Iter(dataloader_dict[name], o) : o \in IterOrders(dataloader_dict[name])}

\* val_acc is kept as the sequence of the operations applied to it since `val_acc = 0`
AccTerm(op, rows) == [op |-> op, rows |-> rows, n |-> 0]
AccDiv(n) == [op |-> "div", rows |-> <<>>, n |-> n]

\* lines 306-318: the accumulators are zeroed, the loop over 'valid' starts
ClsValidStart ==
    /\ tpc = "cls_valid_start"
    /\ val_mmd_loss' = 0
    /\ val_acc' = <<>>
    /\ loop_iter' \in FreshIters("valid")
    /\ last_log' = "Classifier validation start..."
    /\ tpc' = "cls_valid"
    /\ UNCHANGED <<envVars, files, corpusVars, otherCorpusVars, loaderVars, cls_train_iter,
                   aug_train_iter, batchVars, epoch, finish_epoch, freq, acc_i, stateVars,
                   bestVars, round_log, train_error, modelVars>>

\* lines 318-331: one iteration of the classifier validation loop
ClsValidBatch ==
    /\ tpc = "cls_valid"
    /\ loop_iter # <<>>
    /\ batch_iter' = Head(loop_iter)
    /\ loop_iter' = Tail(loop_iter)
    /\ src_sequence' = batch_iter'.src
    /\ trg_label' = batch_iter'.lab
    /\ val_acc' = Append(val_acc, AccTerm("cls_acc", src_sequence'))
    /\ UNCHANGED <<envVars, files, corpusVars, otherCorpusVars, loaderVars, cls_train_iter,
                   aug_train_iter, aug_batch_iter, aug_src_sequence, epoch, finish_epoch,
                   freq, acc_i, stateVars, val_mmd_loss, bestVars, round_log, last_log,
                   tpc, train_error, modelVars>>

\* lines 333-342: the classifier means, then the loop over 'aug_valid' starts
ClsValidEnd ==
    /\ tpc = "cls_valid"
    /\ loop_iter = <<>>
    /\ val_acc' = Append(val_acc, AccDiv(LenLoader(dataloader_dict["valid"])))
    /\ loop_iter' \in FreshIters("aug_valid")
    /\ last_log' = "Augmenter Validation start..."
    /\ tpc' = "aug_valid"
    /\ UNCHANGED <<envVars, files, corpusVars, otherCorpusVars, loaderVars, cls_train_iter,
                   aug_train_iter, batchVars, epoch, finish_epoch, freq, acc_i, stateVars,
                   val_mmd_loss, bestVars, round_log, train_error, modelVars>>

\* lines 342-361: one iteration of the augmenter validation loop.  The loop variable
\* is batch_iter; line 344 reads aug_batch_iter, lines 348-361 evaluate src_sequence.
AugValidBatch ==
    /\ tpc = "aug_valid"
    /\ loop_iter # <<>>
    /\ batch_iter' = Head(loop_iter)
    /\ loop_iter' = Tail(loop_iter)
    /\ aug_src_sequence' = aug_batch_iter.src
    /\ val_acc' = Append(val_acc, AccTerm("recon_acc", src_sequence))
    /\ UNCHANGED <<envVars, files, corpusVars, otherCorpusVars, loaderVars, cls_train_iter,
                   aug_train_iter, aug_batch_iter, src_sequence, trg_label, epoch,
                   finish_epoch, freq, acc_i, stateVars, val_mmd_loss, bestVars, round_log,
                   last_log, tpc, train_error, modelVars>>

\* lines 363-373: the augmenter means, then the loop over 'aug_train' starts
AugValidEnd ==
    /\ tpc = "aug_valid"
    /\ loop_iter = <<>>
    /\ val_acc' = Append(val_acc, AccDiv(LenLoader(dataloader_dict["aug_valid"])))
    /\ val_mmd_loss' \in ValLosses
    /\ loop_iter' \in FreshIters("aug_train")
    /\ last_log' = "Augmenter Validation Reconstruction Accuracy"
    /\ tpc' = "augment"
    /\ UNCHANGED <<envVars, files, corpusVars, otherCorpusVars, loaderVars, cls_train_iter,
                   aug_train_iter, batchVars, epoch, finish_epoch, freq, acc_i, stateVars,
                   bestVars, round_log, train_error, modelVars>>

\* decode, detokenize, re-tokenize: one generated row per row given to aug_model
Augmented(rows) == [k \in 1..Len(rows) |-> [rows[k] EXCEPT !.aug = TRUE]]
\* np.concatenate((a, b)) along the first axis
Concatenate(a, b) == a \o b
\* np.concatenate needs arrays of the same number of dimensions
SameDims(list, rows) ==
    \A k \in 1..Len(list), j \in 1..Len(rows) : Dims(list[k].form) = Dims(rows[j].form)

\* lines 373-396: one iteration of the online augmentation.  The loop variable is
\* batch_iter; lines 374-376 read aug_batch_iter, lines 379-392 decode src_sequence.
AugmentBatch ==
    /\ tpc = "augment"
    /\ loop_iter # <<>>
    /\ batch_iter' = Head(loop_iter)
    /\ loop_iter' = Tail(loop_iter)
    /\ aug_src_sequence' = aug_batch_iter.src
    /\ trg_label' = aug_batch_iter.lab
    /\ LET augmented_tokenized == Augmented(src_sequence)
       IN  /\ train_src_input_ids' = Concatenate(train_src_input_ids, augmented_tokenized)
           /\ IF "attetntion_mask" \notin tokenizer_keys
              THEN /\ Raise("KeyError")
                   /\ UNCHANGED <<train_src_attention_mask, train_src_token_type_ids,
                                  train_trg_list>>
              ELSE /\ train_src_attention_mask' =
                          Concatenate(train_src_attention_mask, augmented_tokenized)
                   /\ train_src_token_type_ids' =
                          Concatenate(train_src_token_type_ids, augmented_tokenized)
                   /\ IF SameDims(train_trg_list, trg_label')
                      THEN /\ train_trg_list' = Concatenate(train_trg_list, trg_label')
                           /\ UNCHANGED <<tpc, train_error>>
                      ELSE /\ Raise("ValueError")
                           /\ UNCHANGED train_trg_list
    /\ UNCHANGED <<envVars, files, otherCorpusVars, loaderVars, cls_train_iter,
                   aug_train_iter, aug_batch_iter, src_sequence, epoch, finish_epoch, freq,
                   acc_i, stateVars, val_acc, val_mmd_loss, bestVars, round_log, last_log,
                   modelVars>>

\* the key of dataset_dict and dataloader_dict assigned at lines 398 and 401
\* Faulty variant: the augmenter's entry is replaced.
RebuiltKeyAug == "aug_train"
RebuiltKey == "train"

\* lines 398-403: the dataset and the loader of 'train' are built again
Rebuild ==
    /\ tpc = "augment"
    /\ loop_iter = <<>>
    /\ LET ds == CustomDataset(train_src_input_ids, train_src_attention_mask,
                               train_src_token_type_ids, train_trg_list, epoch)
       IN  /\ dataset_dict' = [dataset_dict EXCEPT ![RebuiltKey] = ds]
           /\ dataloader_dict' =
                [dataloader_dict EXCEPT
                    ![RebuiltKey] = TupleOf(DataLoader(ds, args.batch_size, FALSE))]
    /\ tpc' = "epoch_end"
    /\ UNCHANGED <<envVars, files, corpusVars, otherCorpusVars, cls_train_iter,
                   aug_train_iter, loop_iter, batchVars, epoch, finish_epoch, freq, acc_i,
                   stateVars, val_acc, val_mmd_loss, bestVars, round_log, last_log,
                   train_error, modelVars>>

\* the dictionary given to torch.save at lines 409-418
CheckpointOf(e) ==
    [epoch |-> e, cls_model |-> cls_model, aug_model |-> aug_model,
     cls_optimizer |-> cls_optimizer, aug_optimizer |-> aug_optimizer,
     cls_scheduler |-> cls_scheduler, aug_scheduler |-> aug_scheduler, scaler |-> scaler]

\* lines 405-423: the checkpoint decision at the end of the epoch
EpochEnd ==
    /\ tpc = "epoch_end"
    /\ IF val_mmd_loss < best_val_loss
       THEN /\ files' = [files EXCEPT ![SaveFileName] = <<CheckpointOf(epoch)>>]
            /\ best_val_loss' = val_mmd_loss
            /\ best_epoch' = <<epoch>>
            /\ last_log' = "Checkpoint saving..."
            /\ tpc' = "epoch_start"
            /\ UNCHANGED train_error
       ELSE /\ IF best_epoch = <<>>
               THEN /\ Raise("UnboundLocalError")      \* best_epoch, line 422
                    /\ UNCHANGED last_log
               ELSE /\ last_log' = "Still best_epoch epoch Loss(best_val_loss) is better..."
                    /\ tpc' = "epoch_start"
                    /\ UNCHANGED train_error
            /\ UNCHANGED <<files, bestVars>>
    /\ UNCHANGED <<envVars, corpusVars, otherCorpusVars, loaderVars, cls_train_iter,
                   aug_train_iter, loop_iter, batchVars, epoch, finish_epoch, freq, acc_i,
                   stateVars, val_acc, val_mmd_loss, round_log, modelVars>>

\* lines 425-427: the final result log
Results ==
    /\ tpc = "results"
    /\ IF best_epoch = <<>>
       THEN /\ Raise("UnboundLocalError")              \* best_epoch, line 426
            /\ UNCHANGED last_log
       ELSE /\ last_log' = "Best Loss"
            /\ tpc' = "finished"
            /\ UNCHANGED train_error
    /\ UNCHANGED <<envVars, files, corpusVars, otherCorpusVars, loaderVars, cls_train_iter,
                   aug_train_iter, loop_iter, batchVars, epoch, finish_epoch, freq, acc_i,
                   stateVars, val_acc, val_mmd_loss, bestVars, round_log, modelVars>>

\* a process started without the resume flag has ended; training(args) is started
\* again with the resume flag and otherwise the same configuration.  Only the file
\* system outlives the process.
Restart ==
    /\ tpc \in {"finished", "raised"}
    /\ ~args.resume
    /\ args' = [args EXCEPT !.resume = TRUE]
    /\ train_src_input_ids' = <<>> /\ train_src_attention_mask' = <<>>
    /\ train_src_token_type_ids' = <<>> /\ train_trg_list' = <<>>
    /\ aug_train_src_input_ids' = <<>> /\ aug_train_trg_list' = <<>>
    /\ valid_src_input_ids' = <<>> /\ aug_valid_src_input_ids' = <<>>
    /\ dataset_dict' = <<>> /\ dataloader_dict' = <<>>
    /\ cls_train_iter' = <<>> /\ aug_train_iter' = <<>> /\ loop_iter' = <<>>
    /\ batch_iter' = <<>> /\ aug_batch_iter' = <<>> /\ src_sequence' = <<>>
    /\ trg_label' = <<>> /\ aug_src_sequence' = <<>>
    /\ epoch' = 0 /\ finish_epoch' = FALSE /\ freq' = 0 /\ acc_i' = 0
    /\ cls_model' = 0 /\ aug_model' = 0 /\ cls_optimizer' = 0 /\ aug_optimizer' = 0
    /\ cls_scheduler' = 0 /\ aug_scheduler' = 0 /\ scaler' = 0
    /\ val_acc' = <<>> /\ val_mmd_loss' = 0 /\ best_val_loss' = 0 /\ best_epoch' = <<>>
    /\ round_log' = <<>> /\ last_log' = "" /\ train_error' = ""
    /\ tpc' = "start"
    /\ UNCHANGED <<tokenizer_keys, files, modelVars>>

NextTrain ==
    \/ LoadData \/ Resume \/ EpochStart
    \/ ClsZeroGrad \/ ClsMicroBatch \/ ClsStep
    \/ AugZeroGrad \/ AugMicroBatch \/ AugStep \/ RoundEnd
    \/ ClsValidStart \/ ClsValidBatch \/ ClsValidEnd \/ AugValidBatch \/ AugValidEnd
    \/ AugmentBatch \/ Rebuild \/ EpochEnd \/ Results \/ Restart

SpecTrain == InitTrain /\ [][NextTrain]_vars

\* the interpreter runs the next statement of training as long as there is one
SpecTrainLive == InitTrain /\ [][NextTrain]_vars /\ WF_vars(NextTrain)

(***************************************************************************)
(* Properties of shift_tokens_right and forward (specification SpecShift). *)
(***************************************************************************)
\* y is x displaced one column to the right behind `start`, sentinels replaced by pad
IsShiftOf(y, x, pad, start) ==
    /\ Len(y) = Len(x)
    /\ \A r \in 1..Len(x) :
        /\ Len(y[r]) = Len(x[r])
        /\ y[r][1] = start
        /\ \A c \in 2..Len(x[r]) :
            y[r][c] = IF x[r][c - 1] = IgnoreIndex THEN pad ELSE x[r][c - 1]

\* C8: a returning call of shift_tokens_right on x with a defined pad id yields a
\* tensor of the same shape with the start id in column 0 and x[i-1] in column i,
\* every copied -100 replaced by the pad id, and leaves x itself as it was.
C8_ShiftRight ==
    [][(spc = "start" /\ spc' = "shifted")
        => /\ pad_idx # <<>>
           /\ IsShiftOf(shifted_input_ids', input_ids, pad_idx[1], decoder_start_token_id)
           /\ input_ids' = input_ids]_vars

\* a full-width tensor was shifted and one of its copied sentinels became the pad id
C8_Witness ==
    /\ spc = "shifted"
    /\ Len(input_ids[1]) = MaxShiftLen
    /\ \E r \in 1..Len(input_ids) : \E c \in 2..MaxShiftLen :
        input_ids[r][c - 1] = IgnoreIndex /\ shifted_input_ids[r][c] = pad_idx[1]
    /\ \E r \in 1..Len(input_ids) : \E c \in 2..MaxShiftLen :
        input_ids[r][c - 1] # IgnoreIndex /\ shifted_input_ids[r][c] = input_ids[r][c - 1]

NoIgnore(x) == \A r \in 1..Len(x) : \A c \in 1..Len(x[r]) : x[r][c] # IgnoreIndex

\* shape of shift(shift(x)): start in columns 0 and 1, x[i-2] from column 2 on
IsDoubleShiftOf(yy, x, start) ==
    /\ Len(yy) = Len(x)
    /\ \A r \in 1..Len(x) :
        /\ Len(yy[r]) = Len(x[r])
        /\ \A c \in 1..Len(x[r]) : yy[r][c] = IF c <= 2 THEN start ELSE x[r][c - 2]

\* C9 (as claimed): for x without -100, shift(shift(x)) has the start id in columns 0
\* and 1 and x[i-2] from column 2 on, and differs from shift(x) whenever x is not
\* constantly the start id.
C9_AsClaimed ==
    (spc = "shifted_twice" /\ NoIgnore(input_ids))
        => /\ IsDoubleShiftOf(shifted_twice, input_ids, decoder_start_token_id)
           /\ \A r \in 1..Len(input_ids) :
                (\E c \in 1..Len(input_ids[r]) : input_ids[r][c] # decoder_start_token_id)
                    => shifted_twice[r] # shifted_input_ids[r]

\* C9 (amended): same shape statement; shift(shift(x)) differs from shift(x) exactly
\* when one of the first L-1 tokens of x differs from the start id (the last token of
\* x is dropped by the first shift and never reaches either result).
C9_ShiftTwice ==
    (spc = "shifted_twice" /\ NoIgnore(input_ids))
        => /\ IsDoubleShiftOf(shifted_twice, input_ids, decoder_start_token_id)
           /\ \A r \in 1..Len(input_ids) :
                (\E c \in 1..(Len(input_ids[r]) - 1) :
                        input_ids[r][c] # decoder_start_token_id)
                    <=> shifted_twice[r] # shifted_input_ids[r]

\* a full-width row without sentinel was shifted twice and the second shift moved it
C9_Witness ==
    /\ spc = "shifted_twice"
    /\ NoIgnore(input_ids)
    /\ Len(input_ids[1]) = MaxShiftLen
    /\ shifted_twice[1] # shifted_input_ids[1]
    /\ shifted_twice[1][MaxShiftLen] # decoder_start_token_id

\* C10: with the pad id undefined, every call of shift_tokens_right and of forward
\* ends in the ValueError, no shifted tensor or decoder input is produced, and no
\* default pad id is substituted.
C10_PadUndefined ==
    (pad_idx = <<>> /\ spc # "start")
        => /\ spc \in {"shift_raised", "forward_raised"}
           /\ shift_error = "ValueError"
           /\ shifted_input_ids = <<>>
           /\ decoder_input_ids = <<>>

\* forward was called with the pad id undefined, on a tensor holding a sentinel
C10_Witness ==
    /\ pad_idx = <<>>
    /\ spc = "forward_raised"
    /\ ~NoIgnore(input_ids)
(***************************************************************************)
(* Properties of generate (specifications Spec and SpecScenario).          *)
(***************************************************************************)
Ended == gpc \in {"returned", "raised"}
ExampleSlots(e) == {e * beam_size + j : j \in 0..(beam_size - 1)}

\* C1 (as claimed): every call of generate on a batch of N examples ends by returning
\* exactly N sequences, one per example, each non-empty, also when no slot ever
\* selected end-of-sequence.
C1_AsClaimed ==
    Ended => /\ gpc = "returned"
             /\ DOMAIN predicted = Examples
             /\ \A e \in Examples : predicted[e] # <<>>

ArgMax(row) == CHOOSE t \in DOMAIN row : \A u \in DOMAIN row : row[u] <= row[t]
RECURSIVE Greedy(_, _)
Greedy(e, prefix) ==
    IF Len(prefix) = src_max_len + 1 THEN prefix
    ELSE LET tok == ArgMax(DecoderRow(e, prefix))
         IN  IF tok = eos_idx THEN Append(prefix, tok)
             ELSE Greedy(e, Append(prefix, tok))

NormLeq(h, j) ==
    IF scores_save[h] = NegInf THEN TRUE
    ELSE IF scores_save[j] = NegInf THEN FALSE
    ELSE scores_save[h] * Pow(Len(complete_seqs[j]) + beam_size, beam_alpha)
            <= scores_save[j] * Pow(Len(complete_seqs[h]) + beam_size, beam_alpha)

\* C6: the sequence generate returns for an example is the saved sequence of a slot of
\* that example whose length-normalized saved score is maximal among the example's
\* slots; the scores are compared after normalization.
C6_LengthNormalizedBest ==
    gpc = "returned"
        => \A e \in Examples : \E j \in ExampleSlots(e) :
                /\ predicted[e] = complete_seqs[j]
                /\ \A h \in ExampleSlots(e) : NormLeq(h, j)

\* two slots of an example saved the same finite raw score with different lengths and
\* the longer one was returned, the shorter one was not
C6_Witness ==
    /\ gpc = "returned"
    /\ beam_alpha = 1
    /\ \E e \in Examples : \E j, h \in ExampleSlots(e) :
        /\ predicted[e] = complete_seqs[j]
        /\ predicted[e] # complete_seqs[h]
        /\ scores_save[j] = scores_save[h]
        /\ scores_save[j] # NegInf /\ scores_save[j] < 0
        /\ Len(complete_seqs[h]) < Len(complete_seqs[j])

\* C7: with repetition_penalty = 0 the penalty stage leaves every score of every slot
\* as log_softmax produced it at every step, and every new hypothesis carries its
\* predecessor's score plus the unpenalized score of its token (end-of-sequence at
\* step 0 counting as -inf), as without a penalty stage.
C7_PenaltyZero ==
    [][(repetition_penalty = 0 /\ gpc = "loop" /\ gpc' = "loop" /\ step' = step + 1)
        => /\ scores' = log_probs'
           /\ \A i \in Slots :
                LET pred == prev_word_inds'[i] + EveryBatch(i)
                    tok == next_word_inds'[i]
                IN  top_k_scores'[i] =
                        IF step = 0 /\ tok = eos_idx THEN NegInf
                        ELSE Add(top_k_scores[pred], log_probs'[pred][tok])]_vars

\* a step after the first ran with factor 0 on a slot whose previously chosen token
\* has a negative finite score, which the multiply path would have changed
C7_Witness ==
    /\ repetition_penalty = 0
    /\ gpc = "loop"
    /\ step >= 2
    /\ \E i \in Slots :
        LET pred == prev_word_inds[i] + EveryBatch(i)
            repeated == seqs[i][Len(seqs[i]) - 1]
        IN  /\ log_probs[pred][repeated] < 0
            /\ log_probs[pred][repeated] # NegInf
            /\ scores[pred][repeated] = log_probs[pred][repeated]

(***************************************************************************)
(* Claims about training (src/task/training.py)                            *)
(***************************************************************************)
\* the online-augmentation loop of the epoch has ended, the corpus is not yet rebuilt:
\* dataset_dict['train'] still holds the corpus as it was when the pass began
PassDone == tpc = "augment" /\ loop_iter = <<>>
\* the label the source named by a token row's split hands out for that example
LabelOf(row) == DatasetLabel(dataset_dict[row.c], row.i)
IsPrefix(a, b) == Len(a) <= Len(b) /\ SubSeq(b, 1, Len(a)) = a

\* C11: after an online-augmentation pass the classifier's corpus has grown by the M
\* generated examples in each of its four arrays, the entries it had before are
\* unchanged and in order, and every new entry is generated from an example of the
\* augmenter's training source and carries that example's one-hot label.
C11_AsClaimed ==
    PassDone =>
        LET old == dataset_dict["train"]
            n0 == Len(old.src_list)
            n1 == Len(train_src_input_ids)
        IN  /\ IsPrefix(old.src_list, train_src_input_ids)
            /\ IsPrefix(old.src_att_list, train_src_attention_mask)
            /\ IsPrefix(old.src_seg_list, train_src_token_type_ids)
            /\ IsPrefix(old.trg_list, train_trg_list)
            /\ Len(train_src_attention_mask) = n1
            /\ Len(train_src_token_type_ids) = n1
            /\ Len(train_trg_list) = n1
            /\ \A k \in (n0 + 1)..n1 :
                /\ train_src_input_ids[k].aug
                /\ train_src_input_ids[k].c = "aug_train"
                /\ k <= Len(train_trg_list) =>
                      train_trg_list[k] = LabelOf(train_src_input_ids[k])

\* the four arrays of a dataset describe the same examples row by row
RowsAligned(ds) ==
    /\ Len(ds.src_att_list) = Len(ds.src_list)
    /\ Len(ds.src_seg_list) = Len(ds.src_list)
    /\ Len(ds.trg_list) = Len(ds.src_list)
    /\ \A k \in 1..Len(ds.src_list) :
        /\ ds.src_att_list[k] = ds.src_list[k]
        /\ ds.src_seg_list[k] = ds.src_list[k]
        /\ ds.trg_list[k].form = "one_hot"
        /\ ds.trg_list[k].i = ds.src_list[k].i
        /\ ds.trg_list[k].split =
              (IF ds.src_list[k].c \in {"train", "aug_train"} THEN "train" ELSE "valid")

AugTrainSourceAtStart ==
    CustomDataset(SrcArray("aug_train", files[AugDataFile].train),
                  SrcArray("aug_train", files[AugDataFile].train),
                  SrcArray("aug_train", files[AugDataFile].train),
                  OneHotAgain(OneHot1("train", files[ClsDataFile].train)), 0)

\* C14: once built, the augmenter's training arrays, its dataset and its batch source
\* stay what they were at the start, through every online-augmentation pass and every
\* rebuild of the classifier's source.
C14_AugSourceKept ==
    dataset_dict # <<>> =>
        /\ aug_train_src_input_ids = SrcArray("aug_train", files[AugDataFile].train)
        /\ aug_train_trg_list = OneHotAgain(OneHot1("train", files[ClsDataFile].train))
        /\ dataset_dict["aug_train"] = AugTrainSourceAtStart
        /\ dataloader_dict["aug_train"] =
              DataLoader(AugTrainSourceAtStart, args.batch_size, TRUE)

\* a second epoch has rebuilt the classifier's source from a corpus that grew
C14_Witness ==
    /\ tpc = "epoch_end"
    /\ epoch = 2
    /\ dataset_dict["train"].id = 2
    /\ Len(train_src_input_ids) > files[ClsDataFile].train + 1

\* C16: the finish flag is false when an epoch starts and at the start of every
\* round; it is set by the exhaustion of the augmenter's training iterator, in
\* whichever micro-batch that happens, and by nothing else; the round in which it is
\* set is completed, augmenter optimizer and scheduler step included, and the loop is
\* left at the end of that round and of no other.
C16_FinishFlag ==
    [][/\ (tpc = "epoch_start" /\ tpc' = "cls_zero_grad") => ~finish_epoch'
       /\ tpc' \in {"cls_zero_grad", "cls_accumulate", "aug_zero_grad"} => ~finish_epoch'
       /\ (~finish_epoch /\ finish_epoch') =>
             (tpc = "aug_accumulate" /\ aug_train_iter = <<>>)
       /\ (tpc = "aug_accumulate" /\ acc_i < args.num_grad_accumulate
             /\ aug_train_iter = <<>>) => finish_epoch'
       /\ (tpc = "aug_accumulate" /\ finish_epoch /\ tpc' # "raised") =>
             (finish_epoch' /\ tpc' \in {"aug_accumulate", "round_end"})
       /\ tpc = "round_end" =>
             /\ Len(round_log) >= 2
             /\ SubSeq(round_log, Len(round_log) - 1, Len(round_log)) =
                   <<"aug_optimizer.step", "aug_scheduler.step">>
             /\ tpc' = IF finish_epoch THEN "cls_valid_start" ELSE "cls_zero_grad"
      ]_vars

\* the loop is left after its second round; the iterator ran out in that round's
\* second micro-batch (three batches, two per round)
C16_Witness ==
    /\ tpc = "cls_valid_start"
    /\ finish_epoch
    /\ freq = 2
    /\ args.num_grad_accumulate = 2
    /\ LenLoader(dataloader_dict["aug_train"]) = 3
    /\ Len(aug_train_iter) = 2

Repeat(x, n) == [k \in 1..n |-> x]

\* C18: a round that reaches its end has made, in this order: the classifier's
\* gradient clearing, num_grad_accumulate classifier micro-batches, one classifier
\* optimizer step, one classifier scheduler step, the augmenter's gradient clearing,
\* num_grad_accumulate augmenter micro-batches, one augmenter optimizer step and one
\* augmenter scheduler step; nothing more and nothing less.
C18_RoundOrder ==
    tpc = "round_end" =>
        round_log =
            <<"cls_optimizer.zero_grad">>
            \o Repeat("cls_model.forward_backward", args.num_grad_accumulate)
            \o <<"cls_optimizer.step", "cls_scheduler.step", "aug_optimizer.zero_grad">>
            \o Repeat("aug_model.forward_backward", args.num_grad_accumulate)
            \o <<"aug_optimizer.step", "aug_scheduler.step">>

\* the second round of an epoch with two micro-batches per phase has ended
C18_Witness ==
    /\ tpc = "round_end"
    /\ freq = 1
    /\ args.num_grad_accumulate = 2
    /\ Len(round_log) = 10

C20_AsClaimed ==
    (tpc \in {"augment", "epoch_end"}) =>
        LET nb == LenLoader(dataloader_dict["aug_valid"])
            src == dataset_dict["aug_valid"].src_list
        IN  /\ Len(val_acc) = nb + 1
            /\ \A k \in 1..nb :
                /\ val_acc[k].op = "recon_acc"
                /\ \A j \in 1..Len(val_acc[k].rows) : val_acc[k].rows[j].c = "aug_valid"
            /\ UNION {{val_acc[k].rows[j] : j \in 1..Len(val_acc[k].rows)} : k \in 1..nb}
                  = {src[i] : i \in 1..Len(src)}
            /\ val_acc[nb + 1] = AccDiv(nb)

\* training has reached line 190: the epoch loop is about to start
EnteredLoop == tpc = "epoch_start" /\ last_log = "Traing start!"

\* C21: a run of training over finite, non-empty sources that has reached its epoch
\* loop ends: every epoch's loop of rounds is left, the epochs start_epoch + 1 ..
\* num_epochs are run one after the other, and the final result log is written.
C21_AsClaimed ==
    /\ (EnteredLoop /\ ~args.resume) ~>
          (tpc = "finished" /\ ~args.resume /\ epoch >= args.num_epochs)
    /\ (EnteredLoop /\ args.resume) ~> (tpc = "finished" /\ epoch >= args.num_epochs)

(***************************************************************************)
(* Further claims about generate (src/model/model.py)                      *)
(***************************************************************************)
\* a score that is neither infinite nor undefined
Finite(x) == x # NegInf /\ x # NaN
\* a decoding step has run: the loop body from line 156 to line 205
Stepped == gpc = "loop" /\ gpc' = "loop" /\ step' = step + 1

\* C22: in a decoding step after the first with a penalty factor other than 0, the
\* penalized scores of a slot differ from its log-probabilities only at the token the
\* slot chose at the previous step, whose score is multiplied by the factor when
\* negative and divided by it otherwise, and a finite score stays finite; at step 0,
\* and with factor 0, the scores are the log-probabilities.
C22_PenaltyOneToken ==
    [][Stepped =>
          \A i \in Slots : \A t \in Vocab :
              LET raw == log_probs'[i][t]
                  pen == scores'[i][t]
              IN  IF step >= 1 /\ repetition_penalty # 0 /\ t = Last(seqs[i])
                  THEN /\ raw < 0 /\ Finite(raw) => pen = raw * repetition_penalty
                       /\ raw >= 0 => pen = raw \div repetition_penalty
                       /\ Finite(raw) => Finite(pen)
                  ELSE pen = raw]_vars

\* a step after the first has doubled the negative score of the token a slot chose
\* before and left another negative score of that slot alone
C22_Witness ==
    /\ gpc = "loop"
    /\ step >= 2
    /\ repetition_penalty = 2
    /\ \E i \in Slots : \E t, u \in Vocab :
          /\ t = seqs[i][Len(seqs[i]) - 1]
          /\ log_probs[prev_word_inds[i] + EveryBatch(i)][t] < 0
          /\ scores[prev_word_inds[i] + EveryBatch(i)][t] =
                2 * log_probs[prev_word_inds[i] + EveryBatch(i)][t]
          /\ u # t
          /\ log_probs[prev_word_inds[i] + EveryBatch(i)][u] < 0
          /\ scores[prev_word_inds[i] + EveryBatch(i)][u] =
                log_probs[prev_word_inds[i] + EveryBatch(i)][u]

\* the candidates of example e in a step after the first: pairs (beam, token) with the
\* predecessor's cumulative score plus the token's penalized score
PairScore(e, b, t) == Add(top_k_scores[e * beam_size + b], scores'[e * beam_size + b][t])

\* C23: in a decoding step after the first, the beam_size new hypotheses of an example
\* are distinct (beam, token) pairs of that example such that no pair left out scores
\* higher than a chosen one; beam = flat index div vocab_num, token = flat index mod
\* vocab_num; the new sequence of a slot is the sequence of that beam of the same
\* example followed by the token.
C23_GlobalTopK ==
    [][(Stepped /\ step > 0) =>
          \A e \in Examples :
              LET B == 0..(beam_size - 1)
                  slot(j) == e * beam_size + j
                  beam(j) == prev_word_inds'[slot(j)]
                  tok(j) == next_word_inds'[slot(j)]
              IN  /\ \A j \in B :
                        /\ beam(j) \in B /\ tok(j) \in Vocab
                        /\ seqs'[slot(j)] = Append(seqs[slot(beam(j))], tok(j))
                        /\ top_k_scores'[slot(j)] = PairScore(e, beam(j), tok(j))
                  /\ \A j, h \in B : j # h => <<beam(j), tok(j)>> # <<beam(h), tok(h)>>
                  /\ \A j, h \in B : j < h =>
                        top_k_scores'[slot(j)] >= top_k_scores'[slot(h)]
                  /\ \A b \in B : \A t \in Vocab :
                        (\A j \in B : <<beam(j), tok(j)>> # <<b, t>>) =>
                            \A j \in B : PairScore(e, b, t) <= top_k_scores'[slot(j)]]_vars

\* two new hypotheses of one example extend the same predecessor beam, which a
\* per-beam top-1 selection cannot produce, while two examples are decoded
C23_Witness ==
    /\ gpc = "loop"
    /\ step >= 2
    /\ batch_size = 2
    /\ beam_size = 2
    /\ \E e \in Examples :
          /\ prev_word_inds[e * beam_size] = prev_word_inds[e * beam_size + 1]
          /\ next_word_inds[e * beam_size] # next_word_inds[e * beam_size + 1]

\* tokens to which the decoder gives a finite score at step 0 for example e
FiniteAtStart(e) == {t \in Vocab : Finite(decoder.first[e][t])}
BeamFits == \A e \in Examples : beam_size < Cardinality(FiniteAtStart(e))

\* C24: when beam_size is smaller than the number of tokens with a finite score, step 0
\* gives every slot of an example the start token followed by a token other than
\* end-of-sequence, chosen from the row of the example's first slot; the second token
\* of a live sequence is never end-of-sequence afterwards, and no returned sequence
\* is [start, end-of-sequence].
C24_NoEmptyOutput ==
    [][BeamFits =>
          /\ (Stepped /\ step = 0) =>
                \A i \in Slots :
                    /\ prev_word_inds'[i] = 0
                    /\ next_word_inds'[i] # eos_idx
                    /\ seqs'[i] = <<decoder_start_token_id, next_word_inds'[i]>>
                    /\ top_k_scores'[i] = log_probs'[EveryBatch(i)][next_word_inds'[i]]
                    /\ \A h \in Slots :
                          (h # i /\ EveryBatch(h) = EveryBatch(i)) =>
                              next_word_inds'[h] # next_word_inds'[i]
          /\ (gpc' \in {"loop", "normalize", "returned"} /\ step' >= 1) =>
                \A i \in Slots : seqs'[i][2] # eos_idx
          /\ gpc' = "returned" =>
                \A e \in Examples : predicted'[e] # <<decoder_start_token_id, eos_idx>>
      ]_vars

\* a call has returned although the decoder put nearly all mass on end-of-sequence at
\* step 0 for every example
C24_Witness ==
    /\ gpc = "returned"
    /\ BeamFits
    /\ beam_size = 2
    /\ \A e \in Examples : decoder.first[e] = PeakEos

\* the beam state between two decoding steps
BeamShape ==
    /\ DOMAIN seqs = Slots
    /\ Cardinality(Slots) = beam_size * batch_size
    /\ \A i \in Slots : Len(seqs[i]) = step + 1 /\ seqs[i][1] = decoder_start_token_id
    /\ complete_ind \subseteq Slots
    /\ \A e \in Examples : Cardinality(complete_ind \cap ExampleSlots(e)) <= beam_size
    /\ step <= src_max_len
    /\ gpc \in {"normalize", "returned"} => step = src_max_len

\* C25: while generate runs there are beam_size live sequences per example, after
\* decoding step t each of length t + 2 and starting with the decoder-start token;
\* the sequence in a slot of example k extends a sequence of a slot of example k; at
\* most beam_size slots of an example are recorded as completed; the loop ends after
\* exactly src_max_len steps.
C25_BeamShape ==
    [][/\ gpc' \in {"loop", "normalize", "returned"} => BeamShape'
       /\ Stepped =>
             \A i \in Slots : \E j \in ExampleSlots(i \div beam_size) :
                 /\ Len(seqs'[i]) = Len(seqs[j]) + 1
                 /\ SubSeq(seqs'[i], 1, Len(seqs[j])) = seqs[j]
      ]_vars

\* the loop has ended after three steps with two examples of two beams each, one slot
\* per example recorded as completed
C25_Witness ==
    /\ gpc = "normalize"
    /\ step = 3
    /\ batch_size = 2
    /\ beam_size = 2
    /\ \A e \in Examples : Cardinality(complete_ind \cap ExampleSlots(e)) = 1

\* a sequence that starts with the start token, has between 2 and src_max_len + 1
\* tokens and holds end-of-sequence nowhere but possibly at its end
WellFormed(q) ==
    /\ Len(q) >= 2 /\ Len(q) <= src_max_len + 1
    /\ q[1] = decoder_start_token_id
    /\ \A c \in 2..(Len(q) - 1) : q[c] # eos_idx

RECURSIVE CountOf(_, _)
CountOf(q, x) ==
    IF q = <<>> THEN 0 ELSE (IF Head(q) = x THEN 1 ELSE 0) + CountOf(Tail(q), x)

\* C27: the augmenter's training iterator is assigned when it is created before the
\* epoch loop and when a micro-batch is drawn, never at an epoch boundary; a draw
\* takes the next batch of the pass in progress and starts a new full pass only when
\* that pass is used up; a round that reaches its end has drawn num_grad_accumulate
\* augmenter micro-batches; when the loop of rounds is left at least one batch of a
\* new pass has been drawn, so a later epoch starts on a pass already begun.
C27_AugIteratorKept ==
    [][/\ aug_train_iter' # aug_train_iter =>
             (tpc \in {"resume", "aug_accumulate"} \/ tpc' = "start")
       /\ (tpc = "aug_accumulate" /\ acc_i < args.num_grad_accumulate) =>
             IF aug_train_iter # <<>>
             THEN aug_batch_iter' = Head(aug_train_iter)
                  /\ aug_train_iter' = Tail(aug_train_iter)
             ELSE \E fresh \in FreshIters("aug_train") :
                      aug_batch_iter' = Head(fresh) /\ aug_train_iter' = Tail(fresh)
       /\ tpc' = "round_end" =>
             CountOf(round_log', "aug_model.forward_backward") = args.num_grad_accumulate
       /\ (tpc = "round_end" /\ tpc' = "cls_valid_start") =>
             Len(aug_train_iter) < LenLoader(dataloader_dict["aug_train"])
       /\ (tpc = "epoch_start" /\ tpc' = "cls_zero_grad" /\ ~EnteredLoop) =>
             /\ aug_train_iter' = aug_train_iter
             /\ Len(aug_train_iter) < LenLoader(dataloader_dict["aug_train"])
      ]_vars

\* a second epoch has started on a pass of three batches of which one was drawn in the
\* last round of the first epoch
C27_Witness ==
    /\ tpc = "cls_zero_grad"
    /\ epoch = 2
    /\ ~args.resume
    /\ LenLoader(dataloader_dict["aug_train"]) = 3
    /\ Len(aug_train_iter) = 2

====
